---- MODULE Spec2Model ----
(***************************************************************************)
(* Argonodes: instance trees (nodes.py), traversal generalisation          *)
(* (appliers.py, helpers.py), the cumulative Model (models.py) and the     *)
(* predicate language and Filter (filters.py).                             *)
(*                                                                         *)
(* Python strings are sequences of one-character strings, so that path     *)
(* construction, REGEX_PATH and REGEX_SEARCH are computed character by     *)
(* character.  The Python value None is the string "None", the class NA    *)
(* the string "NA", type objects are their names.  A dict is a sequence of *)
(* entries in insertion order.                                             *)
(***************************************************************************)
EXTENDS Integers, Sequences, FiniteSets, TLC

VARIABLES filenames, traversal, tree, op, ret, err, nsets, flt

vars == <<filenames, traversal, tree, op, ret, err, nsets, flt>>

(***************************************************************************)
(* Bounds                                                                  *)
(***************************************************************************)
MaxFiles == 2
MaxSets == 1
MaxSegs == 3
MaxPreds == 2
MaxTargets == 2

(***************************************************************************)
(* Characters and strings                                                  *)
(***************************************************************************)
Digits == {"0", "1", "2", "3", "4", "5", "6", "7", "8", "9"}

DigitOf(i) == <<"0", "1", "2", "3", "4", "5", "6", "7", "8", "9">>[i + 1]

Drop(s, k) == SubSeq(s, k + 1, Len(s))

(* the empty string, also standing for an absent (None) filename *)
NoName == <<>>

(***************************************************************************)
(* JSON documents: the files a Model can read and the values a Tree is     *)
(* built from.                                                             *)
(***************************************************************************)
JDict(items) == [kind |-> "dict", items |-> items, val |-> "None"]

JList(items) == [kind |-> "list", items |-> items, val |-> "None"]

JInt(v) == [kind |-> "int", items |-> <<>>, val |-> v]

JStr(v) == [kind |-> "str", items |-> <<>>, val |-> v]

KeyA == <<"a">>
KeyB == <<"b">>
KeyId == <<"i", "d">>
KeyNote == <<"n", "o", "t", "e">>
KeyAB == <<"a", ".", "b">>

(* {"a": [{"id": 1}, {"id": 2}]} *)
DocUsers == JDict(<< <<KeyA, JList(<< JDict(<< <<KeyId, JInt("1")>> >>),
                                      JDict(<< <<KeyId, JInt("2")>> >>) >>)>> >>)

(* {"a": [{"id": 3, "note": "x"}]} *)
DocNote == JDict(<< <<KeyA, JList(<< JDict(<< <<KeyId, JInt("3")>>,
                                              <<KeyNote, JStr("x")>> >>) >>)>> >>)

(* {"a": [{"id": 9}]} *)
DocFresh == JDict(<< <<KeyA, JList(<< JDict(<< <<KeyId, JInt("9")>> >>) >>)>> >>)

(* {"a.b": 1, "a": {"b": 2}} : two nodes at different levels share a path *)
DocDotted == JDict(<< <<KeyAB, JInt("1")>>,
                      <<KeyA, JDict(<< <<KeyB, JInt("2")>> >>)>> >>)

(* 5 *)
DocScalar == JInt("5")

(* {"a": [1, 2]} *)
DocList == JDict(<< <<KeyA, JList(<< JInt("1"), JInt("2") >>)>> >>)

Docs == <<DocUsers, DocNote, DocScalar, DocDotted, DocFresh, DocList>>

(* files that exist on disk, named by their index in Docs *)
Files == 1..3

(* a filename that cannot be opened *)
MissingFile == 0

(* documents a Tree is built from directly *)
TreeDocs == {3, 4, 5, 6}

(* file identifiers given to Tree(data, filename) *)
TreeNames == {NoName, <<"f">>}

(***************************************************************************)
(* helpers.py: REGEX_PATH and REGEX_SEARCH                                 *)
(***************************************************************************)
RECURSIVE DigitRun(_)
(* length of the longest prefix of s made of digits *)
DigitRun(s) ==
    IF s # <<>> /\ Head(s) \in Digits THEN 1 + DigitRun(Tail(s)) ELSE 0

(* \[\d\]: an index of one digit only *)
RegexPathMatch_OneDigit(s) ==
    IF Len(s) >= 3 /\ s[1] = "[" /\ s[2] \in Digits /\ s[3] = "]" THEN 3 ELSE 0

(* length of the match of \[\d+\] at the start of s, 0 when there is none *)
RegexPathMatch(s) ==
    IF s # <<>> /\ Head(s) = "["
    THEN LET n == DigitRun(Tail(s))
         IN IF n > 0 /\ Len(s) >= n + 2 /\ s[n + 2] = "]" THEN n + 2 ELSE 0
    ELSE 0

(* a substitution that leaves concrete indices in place *)
Generalize_Identity(s) == s

RECURSIVE Generalize(_)
(* REGEX_PATH.sub("[*]", s) *)
Generalize(s) ==
    IF s = <<>> THEN <<>>
    ELSE LET m == RegexPathMatch(s)
         IN IF m > 0 THEN <<"[", "*", "]">> \o Generalize(Drop(s, m))
                     ELSE <<Head(s)>> \o Generalize(Tail(s))

RECURSIVE WildMatch(_, _)
(* the compiled pattern: every character literal, "*" compiled to ".*" *)
WildMatch(p, s) ==
    IF p = <<>> THEN s = <<>>
    ELSE IF Head(p) = "*"
         THEN \E k \in 0..Len(s) : WildMatch(Tail(p), Drop(s, k))
         ELSE s # <<>> /\ Head(s) = Head(p) /\ WildMatch(Tail(p), Tail(s))

(* REGEX_SEARCH(pattern).match(s) *)
REGEX_SEARCH(pattern, s) == WildMatch(pattern, s)

(***************************************************************************)
(* nodes.py: Node construction                                             *)
(***************************************************************************)
(* Node._set_path; parent is <<>> for None, else <<parent._path>> *)
SetPath(fieldName, parent) ==
    IF parent = <<>> THEN fieldName
    ELSE LET name == IF RegexPathMatch(fieldName) = 0
                     THEN <<".">> \o fieldName ELSE fieldName
         IN parent[1] \o name

FoundType(fieldName, data) ==
    IF fieldName = <<"$">> THEN "Root" ELSE data.kind

RECURSIVE MakeNode(_, _, _, _)
(* Node.__init__ followed by Node._process *)
MakeNode(data, fieldName, filename, parent) ==
    LET p == SetPath(fieldName, parent)
        kids ==
            IF data.kind = "dict"
            THEN [i \in 1..Len(data.items) |->
                    MakeNode(data.items[i][2], data.items[i][1], filename, <<p>>)]
            ELSE IF data.kind = "list"
            THEN [i \in 1..Len(data.items) |->
                    MakeNode(data.items[i], <<"[", DigitOf(i - 1), "]">>, filename, <<p>>)]
            ELSE <<>>
    IN [fieldName |-> fieldName,
        filename |-> filename,
        foundType |-> FoundType(fieldName, data),
        descriptiveType |-> "None",
        unique |-> "None",
        default |-> "None",
        description |-> "None",
        choices |-> "None",
        regex |-> "None",
        traversal |-> <<>>,
        children |-> kids,
        upath |-> p,
        path |-> IF filename # NoName THEN filename \o <<":">> \o p ELSE p,
        data |-> data.val,
        ignore |-> FALSE]

(* a root left with the metadata every Node starts with *)
Tree_NoSentinel(data, filename) == MakeNode(data, <<"$">>, filename, <<>>)

(* Tree.__init__ *)
Tree(data, filename) ==
    [MakeNode(data, <<"$">>, filename, <<>>) EXCEPT
        !.unique = "NA", !.default = "NA", !.choices = "NA", !.regex = "NA"]

RECURSIVE Node_get_paths(_)
(* Node.get_paths *)
Node_get_paths(node) ==
    {Generalize(node.path)} \cup
    UNION {Node_get_paths(node.children[i]) : i \in 1..Len(node.children)}

RECURSIVE Addresses(_)
(* the nodes of a subtree, each named by the child positions leading to it *)
Addresses(node) ==
    {<<>>} \cup
    UNION {{<<i>> \o a : a \in Addresses(node.children[i])} : i \in 1..Len(node.children)}

RECURSIVE NodeAt(_, _)
NodeAt(node, addr) ==
    IF addr = <<>> THEN node ELSE NodeAt(node.children[Head(addr)], Tail(addr))

RECURSIVE ReplaceAt(_, _, _)
ReplaceAt(node, addr, new) ==
    IF addr = <<>> THEN new
    ELSE [node EXCEPT !.children[Head(addr)] = ReplaceAt(@, Tail(addr), new)]

NoneIgnored(node) == \A a \in Addresses(node) : ~NodeAt(node, a).ignore

(***************************************************************************)
(* Traversals: a dict is a sequence of entries [path, info] in insertion   *)
(* order; info maps field names to values, "traversal" to the nested dict. *)
(***************************************************************************)
Keys(d) == {d[i].path : i \in 1..Len(d)}

IndexOf(d, k) == CHOOSE i \in 1..Len(d) : d[i].path = k

(* uuid.uuid5(uuid.NAMESPACE_URL, path): a UUID object, a function of the  *)
(* path that is equal to no str                                            *)
Uuid5(path) == <<"#">> \o path

(***************************************************************************)
(* appliers.py: make_traversal                                             *)
(***************************************************************************)
Ignored(node) == node.ignore

TraversalKey_upath(node) ==
    IF Ignored(node) THEN Uuid5(Generalize(node.upath)) ELSE Generalize(node.upath)

(* the key of a node in the mapping of its nesting level *)
TraversalKey(node) ==
    IF Ignored(node) THEN Uuid5(Generalize(node.path)) ELSE Generalize(node.path)

(* the record created for a node seen first at its level *)
TraversalRecord(node) ==
    IF Ignored(node)
    THEN [traversal |-> <<>>]
    ELSE [foundType |-> node.foundType,
          descriptiveType |-> node.descriptiveType,
          unique |-> node.unique,
          default |-> node.default,
          description |-> node.description,
          choices |-> node.choices,
          regex |-> node.regex,
          traversal |-> <<>>]

RECURSIVE make_traversal_recur(_, _)
RECURSIVE make_traversal_children(_, _, _)
(* make_traversal.recur(node, void): void after the call *)
make_traversal_recur(node, void) ==
    LET path == TraversalKey(node)
        void1 == IF path \notin Keys(void)
                 THEN Append(void, [path |-> path, info |-> TraversalRecord(node)])
                 ELSE void
        i == IndexOf(void1, path)
    IN IF node.children # <<>>
       THEN [void1 EXCEPT ![i].info.traversal = make_traversal_children(node.children, 1, @)]
       ELSE void1

make_traversal_children(children, k, void) ==
    IF k > Len(children) THEN void
    ELSE make_traversal_children(children, k + 1, make_traversal_recur(children[k], void))

RECURSIVE flatten(_)
(* helpers.flatten(traversal, keys_only=True) *)
flatten(trav) ==
    UNION {{trav[i].path} \cup
           (IF DOMAIN trav[i].info # {} THEN flatten(trav[i].info.traversal) ELSE {})
           : i \in 1..Len(trav)}

(* make_traversal(node, rec=True): node.traversal is assigned, then the    *)
(* assertion is evaluated                                                  *)
make_traversal(node) ==
    LET void == make_traversal_recur(node, <<>>)
    IN [node |-> [node EXCEPT !.traversal = void],
        err |-> IF flatten(void) = Node_get_paths(node) THEN "ok" ELSE "AssertionError"]

(***************************************************************************)
(* appliers.py: ignore_node                                                *)
(***************************************************************************)
(* ignore_node.apply_to; paths is <<>> for None or an empty list *)
ignore_apply_to(node, paths) ==
    IF paths # <<>>
    THEN IF \E i \in 1..Len(paths) : REGEX_SEARCH(paths[i], node.path)
         THEN [node EXCEPT !.ignore = TRUE] ELSE node
    ELSE [node EXCEPT !.ignore = TRUE]

RECURSIVE ignore_recur(_, _)
ignore_recur(node, paths) ==
    [ignore_apply_to(node, paths) EXCEPT
        !.children = [i \in 1..Len(node.children) |-> ignore_recur(node.children[i], paths)]]

ignore_node(node, rec, paths) ==
    IF paths # <<>> /\ rec THEN ignore_recur(node, paths) ELSE ignore_apply_to(node, paths)

PatElems == <<"$", ".", "a", "[", "*", "]">>
PatIds == <<"*", "i", "d">>
PatA == <<"$", ".", "a">>

(* the paths arguments tried for ignore_node *)
IgnorePaths == {<<>>, <<PatElems>>, <<PatIds, PatA>>}

(***************************************************************************)
(* nodes.py: Tree.delete                                                   *)
(***************************************************************************)
Tree_delete_Inherited(root, rec, remove) ==
    [node |-> [root EXCEPT !.children = <<>>], err |-> "AttributeError"]

(* Tree.delete(rec, remove) *)
Tree_delete(root, rec, remove) ==
    [node |-> root, err |-> "AssertionError"]

(***************************************************************************)
(* models.py: merging documents                                            *)
(***************************************************************************)
RECURSIVE DictUpdateFrom(_, _, _)
DictUpdateFrom(full, other, k) ==
    IF k > Len(other) THEN full
    ELSE DictUpdateFrom(
            IF other[k].path \in Keys(full)
            THEN [full EXCEPT ![IndexOf(full, other[k].path)].info = other[k].info]
            ELSE Append(full, other[k]),
            other, k + 1)

(* full_traversal.update(traversal): the value of an existing key is       *)
(* replaced, a new key is added at the end                                 *)
DictUpdate(full, other) == DictUpdateFrom(full, other, 1)

(* an item of a DeepDiff result: a key or a field of the record at the     *)
(* nested keys at that was added, removed or changed                       *)
DiffItem(kind, at, field, old, new) ==
    [kind |-> kind, at |-> at, field |-> field, old |-> old, new |-> new]

RECURSIVE DeepDiffAt(_, _, _)
DeepDiffAt(t1, t2, at) ==
    {DiffItem("dictionary_item_added", at \o <<k>>, "", "", "") : k \in Keys(t2) \ Keys(t1)}
    \cup {DiffItem("dictionary_item_removed", at \o <<k>>, "", "", "") : k \in Keys(t1) \ Keys(t2)}
    \cup UNION {
        LET i1 == t1[IndexOf(t1, k)].info
            i2 == t2[IndexOf(t2, k)].info
            here == at \o <<k>>
        IN {DiffItem("dictionary_item_added", here, f, "", "") : f \in DOMAIN i2 \ DOMAIN i1}
           \cup {DiffItem("dictionary_item_removed", here, f, "", "") : f \in DOMAIN i1 \ DOMAIN i2}
           \cup {DiffItem("values_changed", here, f, i1[f], i2[f]) :
                    f \in {g \in (DOMAIN i1 \cap DOMAIN i2) \ {"traversal"} : i1[g] # i2[g]}}
           \cup (IF "traversal" \in DOMAIN i1 \cap DOMAIN i2
                 THEN DeepDiffAt(i1.traversal, i2.traversal, here) ELSE {})
        : k \in Keys(t1) \cap Keys(t2)}

(* DeepDiff(t1, t2) of two traversals *)
DeepDiff(t1, t2) == DeepDiffAt(t1, t2, <<>>)

EmptyDiff == {}

(* Tree(json_data).export_traversal() for the document of a file *)
FileTraversal(f) == make_traversal(Tree(Docs[f], NoName)).node.traversal

MergeOne_FreshBase(full, f) ==
    [full |-> DictUpdate(full, FileTraversal(f)),
     change |-> <<f, DeepDiff(<<>>, FileTraversal(f))>>]

(* one turn of the loop of process_files *)
MergeOne(full, f) ==
    [full |-> DictUpdate(full, FileTraversal(f)),
     change |-> <<f, DeepDiff(full, FileTraversal(f))>>]

RECURSIVE MergeAll(_, _, _, _)
(* the loop of process_files from its k-th filename on *)
MergeAll(full, fns, k, chg) ==
    IF k > Len(fns) THEN [full |-> full, changes |-> chg]
    ELSE LET m == MergeOne(full, fns[k])
         IN MergeAll(m.full, fns, k + 1, Append(chg, m.change))

LiveAfter_NoCopy(apply, live, full) == full

(* self.traversal after process_files: full_traversal is self.traversal    *)
(* itself when apply is set, else a copy whose keys alone are rebound      *)
LiveAfter(apply, live, full) == IF apply THEN full ELSE live

RECURSIVE Model_get_paths(_)
(* Model.get_paths *)
Model_get_paths(trav) ==
    UNION {{trav[i].path} \cup Model_get_paths(trav[i].info.traversal) : i \in 1..Len(trav)}

(***************************************************************************)
(* models.py: find_info, set_attribute                                     *)
(***************************************************************************)
RECURSIVE find_info_recur(_, _, _, _)
(* find_info.recur: the records yielded, in order, each named by the       *)
(* positions of the entries leading to it                                  *)
find_info_recur(target, trav, k, at) ==
    IF k > Len(trav) THEN <<>>
    ELSE (IF trav[k].path = target THEN <<at \o <<k>>>> ELSE <<>>)
         \o (IF DOMAIN trav[k].info # {}
             THEN find_info_recur(target, trav[k].info.traversal, 1, at \o <<k>>)
             ELSE <<>>)
         \o find_info_recur(target, trav, k + 1, at)

RECURSIVE InfoAt(_, _)
InfoAt(trav, addr) ==
    IF Len(addr) = 1 THEN trav[addr[1]].info
    ELSE InfoAt(trav[addr[1]].info.traversal, Tail(addr))

RECURSIVE SetInfoAt(_, _, _)
SetInfoAt(trav, addr, info) ==
    IF Len(addr) = 1 THEN [trav EXCEPT ![addr[1]].info = info]
    ELSE [trav EXCEPT ![addr[1]].info =
            ("traversal" :> SetInfoAt(@.traversal, Tail(addr), info)) @@ @]

(* Model.find_info(target): next() of the generator *)
find_info(target, trav) ==
    LET found == find_info_recur(target, trav, 1, <<>>)
    IN IF found = <<>> THEN [err |-> "StopIteration", at |-> <<>>]
       ELSE [err |-> "ok", at |-> found[1]]

InfoSet_Fresh(info, attr, value) == (attr :> value) @@ [traversal |-> info.traversal]

(* info[attr] = value *)
InfoSet(info, attr, value) == (attr :> value) @@ info

(* Model.set_attribute(path, attr=value) *)
set_attribute(path, attr, value, trav) ==
    LET r == find_info(path, trav)
    IN IF r.err # "ok" THEN [err |-> r.err, ret |-> <<>>, traversal |-> trav]
       ELSE IF DOMAIN InfoAt(trav, r.at) # {}
       THEN [err |-> "ok", ret |-> <<TRUE>>,
             traversal |-> SetInfoAt(trav, r.at, InfoSet(InfoAt(trav, r.at), attr, value))]
       ELSE [err |-> "ok", ret |-> <<FALSE>>, traversal |-> trav]

(* a path no document contains *)
MissingPath == <<"$", ".", "x">>

UserId == "user id"

(* the keyword arguments tried for set_attribute *)
AttrInputs == << <<"description", UserId>>, <<"example", "e">>, <<"traversal", <<>>>> >>

(***************************************************************************)
(* helpers.py: flatten(traversal, keys_only=False); models.py: __call__    *)
(***************************************************************************)
(* the fields flatten reads from every record *)
FlatFields == {"foundType", "descriptiveType", "unique", "default", "description",
               "example", "regex"}

RECURSIVE flatten_recur(_, _)
(* the entries yielded by flatten.recur, in order, from the k-th key on,   *)
(* up to the first record that lacks a field                               *)
flatten_recur(trav, k) ==
    IF k > Len(trav) THEN [err |-> "ok", flat |-> <<>>]
    ELSE LET info == trav[k].info
         IN IF ~(FlatFields \subseteq DOMAIN info) THEN [err |-> "KeyError", flat |-> <<>>]
            ELSE LET here == <<[path |-> trav[k].path,
                                info |-> [f \in FlatFields |-> info[f]]]>>
                 IN IF "traversal" \notin DOMAIN info
                    THEN [err |-> "KeyError", flat |-> here]
                    ELSE LET below == flatten_recur(info.traversal, 1)
                             after == flatten_recur(trav, k + 1)
                         IN IF below.err # "ok"
                            THEN [err |-> below.err, flat |-> here \o below.flat]
                            ELSE [err |-> after.err, flat |-> here \o below.flat \o after.flat]

(* Model.flatten(): the entries in the order ret.update saw them *)
Model_flatten(trav) ==
    LET ys == flatten_recur(trav, 1)
    IN IF ys.err # "ok" THEN [err |-> ys.err, flat |-> <<>>] ELSE ys

FlatHas(flat, path) == \E i \in 1..Len(flat) : flat[i].path = path

(* flat[path]: the entry written last under that key *)
FlatGet(flat, path) ==
    flat[CHOOSE i \in 1..Len(flat) :
            /\ flat[i].path = path
            /\ \A j \in (i + 1)..Len(flat) : flat[j].path # path].info

(* the node attributes apply_to assigns, in the order of the assignments *)
ApplyFields == <<"descriptiveType", "unique", "default", "description", "choices", "regex">>

RECURSIVE apply_fields(_, _, _)
apply_fields(node, info, k) ==
    IF k > Len(ApplyFields) THEN [node |-> node, err |-> "ok"]
    ELSE IF ApplyFields[k] \notin DOMAIN info THEN [node |-> node, err |-> "KeyError"]
    ELSE apply_fields([node EXCEPT ![ApplyFields[k]] = info[ApplyFields[k]]], info, k + 1)

(* Model.__call__.apply_to(node) *)
call_apply_to(node, flat) ==
    LET path == Generalize(node.path)
    IN IF ~FlatHas(flat, path) THEN [node |-> node, err |-> "KeyError"]
       ELSE apply_fields(node, FlatGet(flat, path), 1)

RECURSIVE call_recur(_, _)
RECURSIVE call_children(_, _, _)
(* Model.__call__.recur(node) *)
call_recur(node, flat) ==
    LET r == call_apply_to(node, flat)
    IN IF r.err # "ok" THEN r
       ELSE LET c == call_children(r.node.children, 1, flat)
            IN [node |-> [r.node EXCEPT !.children = c.children], err |-> c.err]

call_children(children, k, flat) ==
    IF k > Len(children) THEN [children |-> children, err |-> "ok"]
    ELSE LET r == call_recur(children[k], flat)
         IN IF r.err # "ok"
            THEN [children |-> [children EXCEPT ![k] = r.node], err |-> r.err]
            ELSE call_children([children EXCEPT ![k] = r.node], k + 1, flat)

(* Model.__call__(node, rec) *)
Model_call(node, rec, trav) ==
    LET f == Model_flatten(trav)
    IN IF f.err # "ok" THEN [node |-> node, err |-> f.err]
       ELSE IF rec THEN call_recur(node, f.flat)
       ELSE call_apply_to(node, f.flat)

(***************************************************************************)
(* nodes.py: protected attributes and Node.delete                          *)
(***************************************************************************)
PROTECTED_ATTRS_NoPath ==
    {"fieldName", "filename", "data", "foundType", "parent", "children"}

PROTECTED_ATTRS ==
    {"fieldName", "filename", "data", "foundType", "parent", "children", "path"}

(* hasattr(node, key) on a constructed node: __init__ and _process set     *)
(* every field of the record and parent; ignore exists once assigned       *)
HasAttr(node, key) ==
    \/ key \in (DOMAIN node \ {"ignore", "upath"}) \cup {"parent", "_path"}
    \/ key = "ignore" /\ node.ignore

(* Node.__setattr__ *)
Node_setattr(node, key, value) ==
    IF key \in PROTECTED_ATTRS /\ HasAttr(node, key)
    THEN [node |-> node, err |-> "AttributeError"]
    ELSE [node |-> [node EXCEPT ![key] = value], err |-> "ok"]

(* Node.__delattr__; object.__delattr__ raises AttributeError for an       *)
(* attribute the node does not hold, and removes ignore when it does       *)
Node_delattr(node, key) ==
    IF key \in PROTECTED_ATTRS \/ ~HasAttr(node, key)
    THEN [node |-> node, err |-> "AttributeError"]
    ELSE [node |-> [node EXCEPT !.ignore = FALSE], err |-> "ok"]

(* "dumb" *)
Dumb == <<"d", "u", "m", "b">>

(* the (key, value) pairs assigned and the keys deleted *)
SetattrInputs ==
    << <<"fieldName", Dumb>>, <<"filename", Dumb>>, <<"data", Dumb>>,
       <<"foundType", Dumb>>, <<"parent", Dumb>>, <<"children", Dumb>>,
       <<"path", Dumb>>, <<"ignore", TRUE>> >>

DelattrInputs == PROTECTED_ATTRS \cup {"ignore"}

(* the address of the parent of the node at addr *)
ParentOf(addr) == SubSeq(addr, 1, Len(addr) - 1)

(* self.parent.children.pop(self): list.pop takes an integer index, and    *)
(* self is a Node                                                          *)
ListPopNode(children, self) == [list |-> children, err |-> "TypeError"]

(* Node(None, fieldName=uuid.uuid4(), parent=parent): _set_path hands the  *)
(* UUID object to REGEX_PATH.match, which accepts strings only             *)
BlankNode(parent) ==
    IF parent = <<>> THEN [node |-> <<>>, err |-> "ok"]
    ELSE [node |-> <<>>, err |-> "TypeError"]

RECURSIVE Node_delete(_, _, _, _)
RECURSIVE Node_delete_children(_, _, _, _, _)
(* the loop over self.children of Node.delete, from the k-th child on *)
Node_delete_children(root, addr, k, rec, remove) ==
    IF k > Len(NodeAt(root, addr).children) THEN [node |-> root, err |-> "ok"]
    ELSE LET r == Node_delete(root, addr \o <<k>>, rec, remove)
         IN IF r.err # "ok" THEN r
            ELSE Node_delete_children(r.node, addr, k + 1, rec, remove)

(* Node.delete(rec, remove) on the node at addr, which has a parent; the   *)
(* result is the whole tree                                                *)
Node_delete(root, addr, rec, remove) ==
    LET self == NodeAt(root, addr)
        kids == IF rec /\ self.children # <<>>
                THEN Node_delete_children(root, addr, 1, rec, remove)
                ELSE [node |-> root, err |-> "ok"]
        parent == NodeAt(kids.node, ParentOf(addr))
    IN IF kids.err # "ok" THEN kids
       ELSE IF remove
       THEN LET p == ListPopNode(parent.children, self)
            IN [node |-> ReplaceAt(kids.node, ParentOf(addr),
                                   [parent EXCEPT !.children = p.list]),
                err |-> p.err]
       ELSE LET b == BlankNode(<<parent>>)
            IN [node |-> kids.node, err |-> b.err]

(***************************************************************************)
(* filters.py: the predicate language                                      *)
(*                                                                         *)
(* Attribute and operator names are strings, so that a predicate key is    *)
(* split as the code splits it.  The operator function of LIST_OP is named *)
(* by its key.  Values compared by the operators are tokens: "None", "NA", *)
(* "True", "False", "0", "1", "[]", "{}", "[0]" for the Python values of   *)
(* that spelling, "" for the empty str and any other token for a non-empty *)
(* str.                                                                    *)
(***************************************************************************)
A_path == <<"p", "a", "t", "h">>
A_data == <<"d", "a", "t", "a">>
A_foundType == <<"f", "o", "u", "n", "d", "T", "y", "p", "e">>
A_descriptiveType == <<"d", "e", "s", "c", "r", "i", "p", "t", "i", "v", "e", "T", "y", "p", "e">>
A_unique == <<"u", "n", "i", "q", "u", "e">>
A_description == <<"d", "e", "s", "c", "r", "i", "p", "t", "i", "o", "n">>
O_exact == <<"e", "x", "a", "c", "t">>
O_not == <<"n", "o", "t">>
O_gt == <<"g", "t">>
O_gte == <<"g", "t", "e">>
O_lt == <<"l", "t">>
O_lte == <<"l", "t", "e">>
O_contains == <<"c", "o", "n", "t", "a", "i", "n", "s">>
O_startswith == <<"s", "t", "a", "r", "t", "s", "w", "i", "t", "h">>
O_endswith == <<"e", "n", "d", "s", "w", "i", "t", "h">>
O_isnull == <<"i", "s", "n", "u", "l", "l">>
O_regex == <<"r", "e", "g", "e", "x">>
O_foo == <<"f", "o", "o">>

LIST_ATTRIBUTES == <<A_path, A_data, A_foundType, A_descriptiveType, A_unique>>

(* the keys of LIST_OP, in order *)
LIST_OP ==
    <<O_exact, O_not, O_gt, O_gte, O_lt, O_lte,
      O_contains, O_startswith, O_endswith, O_isnull, O_regex>>

(* ATTRIBUTES_VS_OP: a list of operators, empty for every attribute it names *)
ATTRIBUTES_VS_OP == [a \in {A_path, A_data, A_foundType, A_descriptiveType, A_unique} |-> <<>>]

Range(s) == {s[i] : i \in 1..Len(s)}

RECURSIVE SplitDunder(_, _)
(* string.split("__"), cur being the part read so far *)
SplitDunder(s, cur) ==
    IF s = <<>> THEN <<cur>>
    ELSE IF Len(s) >= 2 /\ s[1] = "_" /\ s[2] = "_"
         THEN <<cur>> \o SplitDunder(Drop(s, 2), <<>>)
         ELSE SplitDunder(Tail(s), Append(cur, Head(s)))

ParseResult(e, attribute, o, warned) ==
    [err |-> e, attribute |-> attribute, op |-> o, warned |-> warned]

(* the mapping of operators is consulted before the operator is checked *)
parse_op_LookupFirst(string) ==
    LET parts == SplitDunder(string, <<>>)
    IN IF Len(parts) # 2 THEN ParseResult("ValueError", <<>>, <<>>, FALSE)
       ELSE LET attribute == parts[1]
                o == parts[2]
                warned == attribute \notin Range(LIST_ATTRIBUTES)
            IN IF attribute \notin DOMAIN ATTRIBUTES_VS_OP
               THEN ParseResult("KeyError", attribute, o, warned)
               ELSE IF o \notin Range(LIST_OP)
               THEN ParseResult("ValueError", attribute, o, warned)
               ELSE ParseResult("ok", attribute, o, warned)

(* parse_op(string); warned: the warning was printed *)
parse_op(string) ==
    LET parts == SplitDunder(string, <<>>)
    IN IF Len(parts) # 2 THEN ParseResult("ValueError", <<>>, <<>>, FALSE)
       ELSE LET attribute == parts[1]
                o == parts[2]
                warned == attribute \notin Range(LIST_ATTRIBUTES)
            IN IF o \notin Range(LIST_OP)
               THEN ParseResult("ValueError", attribute, o, warned)
               ELSE IF attribute \notin DOMAIN ATTRIBUTES_VS_OP
               THEN ParseResult("KeyError", attribute, o, warned)
               ELSE IF ATTRIBUTES_VS_OP[attribute] # <<>>
                       /\ o \notin Range(ATTRIBUTES_VS_OP[attribute])
               THEN ParseResult("ValueError", attribute, o, warned)
               ELSE ParseResult("ok", attribute, o, warned)

RECURSIVE get_filters_from_kwargs(_, _, _)
(* get_filters_from_kwargs(kwargs) from the k-th keyword argument on, rtn  *)
(* being the list built so far                                             *)
get_filters_from_kwargs(kwargs, k, rtn) ==
    IF k > Len(kwargs) THEN [err |-> "ok", filters |-> rtn]
    ELSE LET r == parse_op(kwargs[k][1])
         IN IF r.err # "ok" THEN [err |-> r.err, filters |-> rtn]
            ELSE get_filters_from_kwargs(kwargs, k + 1,
                    Append(rtn, <<r.attribute, r.op, kwargs[k][2]>>))

(* Filter.__init__ *)
Filter(params, targets, fnames, kwargs) ==
    LET r == get_filters_from_kwargs(kwargs, 1, <<>>)
    IN [err |-> r.err,
        filter |-> [params |-> params, targets |-> targets,
                    filenames |-> fnames, filters |-> r.filters]]

(* Filter.add *)
Filter_add(f, kwargs) ==
    LET r == get_filters_from_kwargs(kwargs, 1, <<>>)
    IN IF r.err # "ok" THEN [err |-> r.err, filter |-> f]
       ELSE [err |-> "ok", filter |-> [f EXCEPT !.filters = @ \o r.filters]]

(* bool(a) *)
Truthy(a) == a \notin {"None", "", "False", "0", "[]", "{}"}

(* a == b: True equals 1 and False equals 0 *)
PyNum(a) == IF a = "True" THEN "1" ELSE IF a = "False" THEN "0" ELSE a

(* LIST_OP[o](a, b) for the operators exact (eq), not (ne), isnull *)
ApplyOp(o, a, b) ==
    CASE o = O_exact -> PyNum(a) = PyNum(b)
      [] o = O_not -> PyNum(a) # PyNum(b)
      [] o = O_isnull -> ~Truthy(a)

(***************************************************************************)
(* filters.py: Filter.__call__ on a Model                                  *)
(*                                                                         *)
(* The loop over target.traversal.items() binds `filename` to a key of the *)
(* Model's traversal ("$") and `traversal` to its record, so that rec      *)
(* walks the fields of that record: `path` is a field name and             *)
(* traversal[path] the value of the field.                                 *)
(***************************************************************************)
(* list(record.keys()): the fields in insertion order *)
RecordKeys(info) ==
    SelectSeq(<<"foundType", "descriptiveType", "unique", "default", "description",
                "choices", "regex", "traversal", "example">>,
              LAMBDA k : k \in DOMAIN info)

(* values that `"traversal" in value` cannot iterate: type objects and None *)
NotIterable(v) == v \in {"Root", "dict", "list", "int", "str", "NA", "None"}

(* op(path, value) where path is a field name, which no predicate value equals *)
KeyOp(o) ==
    CASE o = O_exact -> FALSE
      [] o = O_not -> TRUE
      [] o = O_isnull -> FALSE

RECURSIVE Filter_call_rec(_, _, _, _, _)
(* rec(traversal) from the k-th key on.  A field value that is a str or    *)
(* the nested dict holds neither "traversal" nor an attribute name, so     *)
(* only a path predicate can fail, and the soft branch then subscripts the *)
(* value with "traversal".                                                 *)
Filter_call_rec(f, info, k, keep_paths, keep_root) ==
    LET keys == RecordKeys(info)
    IN IF k > Len(keys) THEN [err |-> "ok", info |-> info]
       ELSE IF keys[k] # "traversal" /\ NotIterable(info[keys[k]])
       THEN [err |-> "TypeError", info |-> info]
       ELSE IF f.targets # <<>>
       THEN Filter_call_rec(f, info, k + 1, keep_paths, keep_root)
       ELSE IF keep_paths /\ \E i \in 1..Len(f.filters) :
                                f.filters[i][1] = A_path /\ ~KeyOp(f.filters[i][2])
       THEN [err |-> IF keys[k] = "traversal" THEN "KeyError" ELSE "TypeError",
             info |-> info]
       ELSE Filter_call_rec(f, info, k + 1, keep_paths, keep_root)

RECURSIVE Filter_call_model(_, _, _, _, _)
(* the loop over target.traversal.items(), from the k-th entry on *)
Filter_call_model(f, trav, k, keep_paths, keep_root) ==
    IF k > Len(trav) THEN [err |-> "ok", traversal |-> trav]
    ELSE IF f.filenames # <<>> /\ trav[k].path \notin Range(f.filenames)
    THEN Filter_call_model(f, trav, k + 1, keep_paths, keep_root)
    ELSE LET r == Filter_call_rec(f, trav[k].info, 1, keep_paths, keep_root)
         IN IF r.err # "ok" THEN [err |-> r.err, traversal |-> trav]
            ELSE Filter_call_model(f, [trav EXCEPT ![k].info = r.info], k + 1,
                                   keep_paths, keep_root)

(***************************************************************************)
(* Inputs of the predicate language                                        *)
(***************************************************************************)
Dunder == <<"_", "_">>

KeyOf(attribute, o) == attribute \o Dunder \o o

(* the keys handed to parse_op: every operator, one that does not exist    *)
(* and the empty one, for two base attributes and two others; keys that do *)
(* not split in two                                                        *)
PredKeys ==
    {KeyOf(a, o) : a \in {A_path, A_unique, A_description, <<"d", "e", "f", "a", "u", "l", "t">>},
                   o \in Range(LIST_OP) \cup {O_foo, <<>>}}
    \cup {A_path, KeyOf(A_path, KeyOf(O_exact, O_foo)), A_path \o <<"_">> \o Dunder \o O_exact}

(* keyword arguments key=value *)
KwPathExact == <<KeyOf(A_path, O_exact), PatA>>
KwUniqueExact == <<KeyOf(A_unique, O_exact), "True">>
KwUniqueIsnull == <<KeyOf(A_unique, O_isnull), "True">>
KwDescriptionExact == <<KeyOf(A_description, O_exact), "x">>
KwDescriptionFoo == <<KeyOf(A_description, O_foo), "x">>
KwUniqueFoo == <<KeyOf(A_unique, O_foo), "True">>
KwPathOnly == <<A_path, "x">>

(* **kwargs: none, one, or two with different keys *)
KwargsInputs ==
    {<<>>}
    \cup {<<a>> : a \in {KwPathExact, KwUniqueExact, KwUniqueIsnull, KwDescriptionExact,
                         KwDescriptionFoo, KwUniqueFoo, KwPathOnly}}
    \cup {<<a, b>> : a \in {KwUniqueExact, KwDescriptionExact},
                     b \in {KwUniqueIsnull, KwUniqueFoo, KwDescriptionFoo}}

(* the values the operators are applied to *)
Values == {"None", "", "x", "False", "True", "0", "1", "[]", "{}", "[0]", "NA"}

(* (targets, filenames) of a Filter: neither, a target, a filename *)
ScopeInputs == {<< <<>>, <<>> >>, << <<PatElems>>, <<>> >>, << <<>>, <<<<"f">>>> >>}

(* the keys handed to parse_op next to a Filter: those of the keyword      *)
(* arguments and one that splits in three                                  *)
FilterKeys ==
    {kw[1] : kw \in {KwPathExact, KwUniqueExact, KwUniqueIsnull, KwDescriptionExact,
                     KwDescriptionFoo, KwUniqueFoo, KwPathOnly}}
    \cup {KeyOf(A_path, KeyOf(O_exact, O_foo)), KeyOf(A_description, <<>>)}

(***************************************************************************)
(* filters.py: Filter.__call__ on a Node                                   *)
(***************************************************************************)
(* hasattr(node, attr) and getattr(node, attr) for the attributes that the *)
(* predicates name; every Node has these                                   *)
Node_getattr(node, attribute) ==
    CASE attribute = A_unique -> <<node.unique>>
      [] attribute = A_description -> <<node.description>>
      [] attribute = A_foundType -> <<node.foundType>>
      [] attribute = A_descriptiveType -> <<node.descriptiveType>>
      [] OTHER -> <<>>

(* op(node.path, value): a path is a non-empty str *)
PathOp(o, path, value) ==
    CASE o = O_exact -> path = value
      [] o = O_not -> path # value
      [] o = O_isnull -> FALSE

(* the condition under which rec calls node.delete for a predicate *)
PredicateFails(node, filtr) ==
    IF filtr[1] = A_path THEN ~PathOp(filtr[2], node.path, filtr[3])
    ELSE /\ Node_getattr(node, filtr[1]) # <<>>
         /\ ~ApplyOp(filtr[2], Node_getattr(node, filtr[1])[1], filtr[3])

RECURSIVE Filter_call_filters(_, _, _, _, _)
(* the loop over self.filters for the node at addr, from the i-th on; the  *)
(* root is a Tree, every other node a Node                                 *)
Filter_call_filters(root, addr, f, i, keep_paths) ==
    IF i > Len(f.filters) THEN [node |-> root, err |-> "ok"]
    ELSE IF PredicateFails(NodeAt(root, addr), f.filters[i])
    THEN LET d == IF addr = <<>> THEN Tree_delete(root, FALSE, ~keep_paths)
                  ELSE Node_delete(root, addr, FALSE, ~keep_paths)
         IN IF d.err # "ok" THEN d
            ELSE Filter_call_filters(d.node, addr, f, i + 1, keep_paths)
    ELSE Filter_call_filters(root, addr, f, i + 1, keep_paths)

RECURSIVE Filter_call_node(_, _, _, _, _)
RECURSIVE Filter_call_children(_, _, _, _, _, _)
(* the loop over node.children of rec, from the k-th child on *)
Filter_call_children(root, addr, k, f, keep_paths, keep_root) ==
    IF k > Len(NodeAt(root, addr).children) THEN [node |-> root, err |-> "ok"]
    ELSE LET r == Filter_call_node(root, addr \o <<k>>, f, keep_paths, keep_root)
         IN IF r.err # "ok" THEN r
            ELSE Filter_call_children(r.node, addr, k + 1, f, keep_paths, keep_root)

(* rec(node) for the node at addr; the result is the whole tree *)
Filter_call_node(root, addr, f, keep_paths, keep_root) ==
    LET kids == Filter_call_children(root, addr, 1, f, keep_paths, keep_root)
        node == NodeAt(kids.node, addr)
    IN IF kids.err # "ok" THEN kids
       ELSE IF node.path = <<"$">> /\ keep_root THEN kids
       ELSE IF \E t \in 1..Len(f.targets) : ~REGEX_SEARCH(f.targets[t], node.path) THEN kids
       ELSE Filter_call_filters(kids.node, addr, f, 1, keep_paths)

(***************************************************************************)
(* filters.py: select / add_paths, import_filter, export_filter.  The      *)
(* attribute paths exists on a Filter once import_filter has set it.       *)
(***************************************************************************)
(* Filter.add_paths(paths) with paths a list *)
Filter_add_paths(f, paths) ==
    IF "paths" \in DOMAIN f
    THEN [err |-> "ok", filter |-> [f EXCEPT !.paths = Append(@, paths)]]
    ELSE [err |-> "AttributeError", filter |-> f]

(* Filter.import_filter(dct): the keys are read in the order params,       *)
(* paths, filters                                                          *)
Filter_import(f, dct) ==
    LET f1 == [f EXCEPT !.params = dct.params]
    IN IF "paths" \notin DOMAIN dct THEN [err |-> "KeyError", filter |-> f1]
       ELSE [err |-> "ok",
             filter |-> [n \in DOMAIN f \cup {"paths"} |->
                            CASE n = "paths" -> dct.paths
                              [] n = "filters" -> dct.filters
                              [] OTHER -> f1[n]]]

(* Filter.export_filter() *)
Filter_export(f) ==
    IF "paths" \in DOMAIN f
    THEN [err |-> "ok", dct |-> <<[params |-> f.params, paths |-> f.paths, filters |-> f.filters]>>]
    ELSE [err |-> "AttributeError", dct |-> <<>>]

(* scopes of a Filter applied to a Tree: those of ScopeInputs and two      *)
(* targets that match different nodes                                      *)
TreeScopeInputs == ScopeInputs \cup {<< <<PatA, PatElems>>, <<>> >>}

(* the keyword arguments that the constructor accepts *)
TreeKwargsInputs == {kwargs \in KwargsInputs : Filter(<<>>, <<>>, <<>>, kwargs).err = "ok"}

(* records handed to import_filter: with the keys export_filter writes,    *)
(* and with targets in place of paths                                      *)
DctInputs ==
    {[params |-> <<>>, paths |-> <<PatA>>,
      filters |-> Filter(<<>>, <<>>, <<>>, <<KwUniqueExact>>).filter.filters],
     [params |-> <<"p">>, targets |-> <<PatA>>, filters |-> <<>>]}

(***************************************************************************)
(* nodes.py: Node.get_children_from_path                                   *)
(***************************************************************************)
RECURSIVE Concat(_)
(* the lists of a list, one after the other *)
Concat(lists) == IF lists = <<>> THEN <<>> ELSE Head(lists) \o Concat(Tail(lists))

(* paths after the loop that writes the file identifier before every path  *)
(* without a colon                                                         *)
WithFilename(node, paths) ==
    IF node.filename # NoName
    THEN [i \in 1..Len(paths) |->
            IF ":" \notin Range(paths[i]) THEN node.filename \o <<":">> \o paths[i]
            ELSE paths[i]]
    ELSE paths

RECURSIVE get_children_from_path(_, _, _)
(* list(recur(paths)) for the node at addr, each node named by its address *)
get_children_from_path(root, addr, paths) ==
    LET self == NodeAt(root, addr)
        targets == WithFilename(self, paths)
    IN Concat([t \in 1..Len(targets) |->
                 (IF REGEX_SEARCH(targets[t], self.path) THEN <<addr>> ELSE <<>>)
                 \o Concat([c \in 1..Len(self.children) |->
                              get_children_from_path(root, addr \o <<c>>, targets)])])

PatFileA == <<"f", ":", "$", ".", "a">>
PatAny == <<"*">>

(* the paths arguments tried for get_children_from_path: one path, one     *)
(* carrying the file identifier, two paths                                 *)
ChildrenPaths == {<<PatA>>, <<PatElems>>, <<PatFileA>>, <<PatA, PatElems>>, <<PatIds, PatAny>>}

(***************************************************************************)
(* State                                                                   *)
(***************************************************************************)
Call(name, arg) == [name |-> name, arg |-> arg]

(* Model(), no Tree built yet and no Filter constructed *)
Init ==
    /\ filenames = <<>>
    /\ traversal = <<>>
    /\ tree = <<>>
    /\ op = Call("init", <<>>)
    /\ ret = <<>>
    /\ err = "ok"
    /\ nsets = 0
    /\ flt = <<>>

ModelUnchanged == UNCHANGED <<filenames, traversal, nsets, flt>>

(***************************************************************************)
(* Operations on the Model                                                 *)
(***************************************************************************)
RECURSIVE RemoveFirst(_, _)
(* list.remove(x) on a list that holds x *)
RemoveFirst(s, x) ==
    IF Head(s) = x THEN Tail(s) ELSE <<Head(s)>> \o RemoveFirst(Tail(s), x)

InList(s, x) == \E i \in 1..Len(s) : s[i] = x

(* model.add_files(filename): kept when the file can be opened *)
AddFiles(f) ==
    /\ Len(filenames) < MaxFiles
    /\ filenames' = IF f \in Files THEN Append(filenames, f) ELSE filenames
    /\ op' = Call("add_files", <<f>>)
    /\ ret' = <<>>
    /\ err' = "ok"
    /\ UNCHANGED <<traversal, tree, nsets, flt>>

(* model.remove_files(filename) *)
RemoveFiles(f) ==
    /\ filenames' = IF InList(filenames, f) THEN RemoveFirst(filenames, f) ELSE filenames
    /\ op' = Call("remove_files", <<f>>)
    /\ ret' = <<>>
    /\ err' = "ok"
    /\ UNCHANGED <<traversal, tree, nsets, flt>>

(* model.process_files(apply); the list of changes is the returned value *)
ProcessFiles(apply) ==
    /\ LET r == MergeAll(traversal, filenames, 1, <<>>)
       IN /\ traversal' = LiveAfter(apply, traversal, r.full)
          /\ ret' = <<r.changes>>
    /\ op' = Call("process_files", <<apply>>)
    /\ err' = "ok"
    /\ UNCHANGED <<filenames, tree, nsets, flt>>

(* model.find_info(target) *)
FindInfo(target) ==
    /\ LET r == find_info(target, traversal)
       IN /\ err' = r.err
          /\ ret' = IF r.err = "ok" THEN <<InfoAt(traversal, r.at)>> ELSE <<>>
    /\ op' = Call("find_info", <<target>>)
    /\ UNCHANGED <<filenames, traversal, tree, nsets, flt>>

(* model.set_attribute(path, attr=value) with the i-th keyword argument *)
SetAttribute(path, i) ==
    /\ nsets < MaxSets
    /\ nsets' = nsets + 1
    /\ LET r == set_attribute(path, AttrInputs[i][1], AttrInputs[i][2], traversal)
       IN /\ err' = r.err
          /\ ret' = r.ret
          /\ traversal' = r.traversal
    /\ op' = Call("set_attribute", <<path, AttrInputs[i][1], AttrInputs[i][2]>>)
    /\ UNCHANGED <<filenames, tree, flt>>

(* the paths asked for: every path of the Model and one it does not hold *)
Targets == Model_get_paths(traversal) \cup {MissingPath}

Next ==
    \/ \E f \in Files \cup {MissingFile} : AddFiles(f)
    \/ \E f \in Files \cup {MissingFile} : RemoveFiles(f)
    \/ \E apply \in BOOLEAN : ProcessFiles(apply)
    \/ \E target \in Targets : FindInfo(target)
    \/ \E path \in Targets, i \in 1..Len(AttrInputs) : SetAttribute(path, i)

Spec == Init /\ [][Next]_vars

(***************************************************************************)
(* Operations on the instance tree                                         *)
(***************************************************************************)
(* tree = Tree(data, filename) *)
TreeInit(d, fn) ==
    /\ tree' = <<Tree(Docs[d], fn)>>
    /\ op' = Call("Tree", <<d, fn>>)
    /\ ret' = <<>>
    /\ err' = "ok"
    /\ ModelUnchanged

(* node.apply(ignore_node, rec, paths=paths) for a node of the tree *)
IgnoreNode(addr, rec, paths) ==
    /\ tree' = <<ReplaceAt(tree[1], addr, ignore_node(NodeAt(tree[1], addr), rec, paths))>>
    /\ op' = Call("ignore_node", <<addr, rec, paths>>)
    /\ ret' = <<>>
    /\ err' = "ok"
    /\ ModelUnchanged

(* tree.export_traversal() *)
ExportTraversal ==
    /\ tree # <<>>
    /\ LET r == make_traversal(tree[1])
       IN /\ tree' = <<r.node>>
          /\ err' = r.err
    /\ op' = Call("export_traversal", <<>>)
    /\ ret' = <<>>
    /\ ModelUnchanged

(* tree.delete(rec, remove) *)
TreeDelete(rec, remove) ==
    /\ tree # <<>>
    /\ LET r == Tree_delete(tree[1], rec, remove)
       IN /\ tree' = <<r.node>>
          /\ err' = r.err
    /\ op' = Call("Tree.delete", <<rec, remove>>)
    /\ ret' = <<>>
    /\ ModelUnchanged

(* model(node, rec) for a node of the tree *)
ModelCall(addr, rec) ==
    /\ LET r == Model_call(NodeAt(tree[1], addr), rec, traversal)
       IN /\ tree' = <<ReplaceAt(tree[1], addr, r.node)>>
          /\ err' = r.err
    /\ op' = Call("Model.__call__", <<addr, rec>>)
    /\ ret' = <<>>
    /\ ModelUnchanged

NextTree ==
    \/ \E d \in TreeDocs, fn \in TreeNames : TreeInit(d, fn)
    \/ /\ tree # <<>>
       /\ \E addr \in Addresses(tree[1]), rec \in BOOLEAN, paths \in IgnorePaths :
             IgnoreNode(addr, rec, paths)
    \/ ExportTraversal
    \/ \E rec \in BOOLEAN, remove \in BOOLEAN : TreeDelete(rec, remove)

SpecTree == Init /\ [][NextTree]_vars

(* a Model that has learned one file, or none *)
InitApply ==
    /\ \E fns \in {<<>>} \cup {<<f>> : f \in Files} :
          /\ filenames = fns
          /\ traversal = MergeAll(<<>>, fns, 1, <<>>).full
    /\ tree = <<>>
    /\ op = Call("init", <<>>)
    /\ ret = <<>>
    /\ err = "ok"
    /\ nsets = 0
    /\ flt = <<>>

NextApply ==
    \/ \E path \in Targets, i \in 1..Len(AttrInputs) : SetAttribute(path, i)
    \/ \E d \in TreeDocs, fn \in TreeNames : TreeInit(d, fn)
    \/ /\ tree # <<>>
       /\ \E addr \in Addresses(tree[1]), rec \in BOOLEAN : ModelCall(addr, rec)

SpecApply == InitApply /\ [][NextApply]_vars

(***************************************************************************)
(* Attribute assignment, attribute deletion and Node.delete on the tree    *)
(***************************************************************************)
(* node.__setattr__(key, value) with the i-th (key, value) pair *)
NodeSetattr(addr, i) ==
    /\ LET r == Node_setattr(NodeAt(tree[1], addr), SetattrInputs[i][1], SetattrInputs[i][2])
       IN /\ tree' = <<ReplaceAt(tree[1], addr, r.node)>>
          /\ err' = r.err
    /\ op' = Call("__setattr__", <<addr, SetattrInputs[i][1]>>)
    /\ ret' = <<>>
    /\ ModelUnchanged

(* node.__delattr__(key) *)
NodeDelattr(addr, key) ==
    /\ LET r == Node_delattr(NodeAt(tree[1], addr), key)
       IN /\ tree' = <<ReplaceAt(tree[1], addr, r.node)>>
          /\ err' = r.err
    /\ op' = Call("__delattr__", <<addr, key>>)
    /\ ret' = <<>>
    /\ ModelUnchanged

(* node.delete(rec, remove) for a node below the root *)
NodeDelete(addr, rec, remove) ==
    /\ addr # <<>>
    /\ LET r == Node_delete(tree[1], addr, rec, remove)
       IN /\ tree' = <<r.node>>
          /\ err' = r.err
    /\ op' = Call("Node.delete", <<addr, rec, remove>>)
    /\ ret' = <<>>
    /\ ModelUnchanged

NextNode ==
    \/ \E d \in TreeDocs, fn \in TreeNames : TreeInit(d, fn)
    \/ /\ tree # <<>>
       /\ \E addr \in Addresses(tree[1]), i \in 1..Len(SetattrInputs) : NodeSetattr(addr, i)
    \/ /\ tree # <<>>
       /\ \E addr \in Addresses(tree[1]), key \in DelattrInputs : NodeDelattr(addr, key)
    \/ /\ tree # <<>>
       /\ \E addr \in Addresses(tree[1]), rec \in BOOLEAN, remove \in BOOLEAN :
             NodeDelete(addr, rec, remove)

SpecNode == Init /\ [][NextNode]_vars

(***************************************************************************)
(* helpers.py as pure functions: the strings and patterns they are given   *)
(***************************************************************************)
RECURSIVE Strs(_, _)
(* the strings made of at most n of the tokens *)
Strs(tokens, n) ==
    IF n = 0 THEN {<<>>}
    ELSE LET prev == Strs(tokens, n - 1)
         IN prev \cup {s \o t : s \in prev, t \in tokens}

(* the segments of a concrete path: .a .b [0] [3] [12] *)
PathTokens ==
    {<<".", "a">>, <<".", "b">>, <<"[", "0", "]">>, <<"[", "3", "]">>,
     <<"[", "1", "2", "]">>}

(* pieces of arbitrary strings: $ .a [0] [12] [ 7] [*] *)
AnyTokens ==
    {<<"$">>, <<".", "a">>, <<"[", "0", "]">>, <<"[", "1", "2", "]">>, <<"[">>,
     <<"7", "]">>, <<"[", "*", "]">>}

(* "$.a[7].b[2]" *)
PathTwoIndices == <<"$", ".", "a", "[", "7", "]", ".", "b", "[", "2", "]">>

ConcretePaths == {<<"$">> \o s : s \in Strs(PathTokens, MaxSegs)}

Strings == Strs(AnyTokens, MaxSegs) \cup {PathTwoIndices}

PatAStarB == <<"$", ".", "a", "[", "*", "]", ".", "b">>

(* patterns whose only wildcards are [*]:                                  *)
(* $  $.a  $.a.b  $[*]  $.a[*]  $.a[*].b  $.a[*][*]  $.a[*].b[*]            *)
Patterns ==
    {<<"$">>, PatA, PatA \o <<".", "b">>, <<"$", "[", "*", "]">>, PatElems, PatAStarB,
     PatElems \o <<"[", "*", "]">>, PatAStarB \o <<"[", "*", "]">>}

(* the arguments of one call: a pattern and a concrete path, or no pattern *)
(* and a string                                                            *)
InitPath ==
    /\ filenames = <<>>
    /\ traversal = <<>>
    /\ tree = <<>>
    /\ op \in {Call("input", <<p, c>>) : p \in Patterns, c \in ConcretePaths}
              \cup {Call("input", <<NoName, s>>) : s \in Strings}
    /\ ret = <<>>
    /\ err = "ok"
    /\ nsets = 0
    /\ flt = <<>>

(* REGEX_SEARCH(pattern).match(path) is not None *)
Search ==
    /\ op.name = "input"
    /\ op.arg[1] # NoName
    /\ op' = Call("REGEX_SEARCH", op.arg)
    /\ ret' = <<REGEX_SEARCH(op.arg[1], op.arg[2])>>
    /\ err' = "ok"
    /\ UNCHANGED <<tree, filenames, traversal, nsets, flt>>

(* REGEX_PATH.sub("[*]", s) *)
Sub ==
    /\ op.name = "input"
    /\ op' = Call("REGEX_PATH.sub", <<op.arg[2]>>)
    /\ ret' = <<Generalize(op.arg[2])>>
    /\ err' = "ok"
    /\ UNCHANGED <<tree, filenames, traversal, nsets, flt>>

NextPath == Search \/ Sub

SpecPath == InitPath /\ [][NextPath]_vars

(***************************************************************************)
(* Operations on a Filter                                                  *)
(***************************************************************************)
(* parse_op(key) *)
ParseOp(key) ==
    /\ LET r == parse_op(key)
       IN /\ err' = r.err
          /\ ret' = <<r>>
    /\ op' = Call("parse_op", <<key>>)
    /\ UNCHANGED <<filenames, traversal, tree, nsets, flt>>

(* LIST_OP[o](a, b) *)
OpEval(o, a, b) ==
    /\ ret' = <<ApplyOp(o, a, b)>>
    /\ err' = "ok"
    /\ op' = Call("LIST_OP", <<o, a, b>>)
    /\ UNCHANGED <<filenames, traversal, tree, nsets, flt>>

(* flt = Filter(targets=targets, filenames=fnames, **kwargs); when the     *)
(* constructor raises, flt stays bound to what it was                      *)
FilterInit(targets, fnames, kwargs) ==
    /\ LET r == Filter(<<>>, targets, fnames, kwargs)
       IN /\ err' = r.err
          /\ flt' = IF r.err = "ok" THEN <<r.filter>> ELSE flt
    /\ op' = Call("Filter", <<kwargs, targets, fnames>>)
    /\ ret' = <<>>
    /\ UNCHANGED <<filenames, traversal, tree, nsets>>

(* flt.add with the keyword arguments kwargs *)
FilterAdd(kwargs) ==
    /\ flt # <<>>
    /\ Len(flt[1].filters) + Len(kwargs) <= MaxPreds
    /\ LET r == Filter_add(flt[1], kwargs)
       IN /\ err' = r.err
          /\ flt' = <<r.filter>>
    /\ op' = Call("Filter.add", <<kwargs>>)
    /\ ret' = <<>>
    /\ UNCHANGED <<filenames, traversal, tree, nsets>>

(* flt(model, keep_paths, keep_root) *)
FilterModel(keep_paths, keep_root) ==
    /\ flt # <<>>
    /\ LET r == Filter_call_model(flt[1], traversal, 1, keep_paths, keep_root)
       IN /\ err' = r.err
          /\ traversal' = r.traversal
    /\ op' = Call("Filter.__call__", <<"Model", keep_paths, keep_root>>)
    /\ ret' = <<>>
    /\ UNCHANGED <<filenames, tree, nsets, flt>>

NextFilter ==
    \/ \E key \in FilterKeys : ParseOp(key)
    \/ \E scope \in ScopeInputs, kwargs \in KwargsInputs :
          FilterInit(scope[1], scope[2], kwargs)
    \/ \E kwargs \in KwargsInputs : FilterAdd(kwargs)
    \/ \E keep_paths \in BOOLEAN, keep_root \in BOOLEAN : FilterModel(keep_paths, keep_root)

(* a Model that has learned one file, or none, and no Filter yet *)
SpecFilter == InitApply /\ [][NextFilter]_vars

(* the arguments of one call of parse_op or of an operator of LIST_OP *)
InitOps ==
    /\ filenames = <<>>
    /\ traversal = <<>>
    /\ tree = <<>>
    /\ op \in {Call("input", <<key>>) : key \in PredKeys}
              \cup {Call("input", <<o, a, b>>) :
                        o \in {O_exact, O_not, O_isnull}, a \in Values, b \in {"None", "1"}}
    /\ ret = <<>>
    /\ err = "ok"
    /\ nsets = 0
    /\ flt = <<>>

NextOps ==
    \/ op.name = "input" /\ Len(op.arg) = 1 /\ ParseOp(op.arg[1])
    \/ op.name = "input" /\ Len(op.arg) = 3 /\ OpEval(op.arg[1], op.arg[2], op.arg[3])

SpecOps == InitOps /\ [][NextOps]_vars

NextMerge ==
    \/ \E f \in Files \cup {MissingFile} : AddFiles(f)
    \/ \E f \in Files \cup {MissingFile} : RemoveFiles(f)
    \/ \E apply \in BOOLEAN : ProcessFiles(apply)

(* a Model that is given files, gives some up, and merges those it has,     *)
(* committed or as a preview                                               *)
SpecMerge == Init /\ [][NextMerge]_vars

(***************************************************************************)
(* A Filter applied to the tree, exported, imported and extended, and the  *)
(* lookup of nodes by path                                                 *)
(***************************************************************************)
(* flt(tree, keep_paths, keep_root) *)
FilterTree(keep_paths, keep_root) ==
    /\ flt # <<>>
    /\ tree # <<>>
    /\ LET r == Filter_call_node(tree[1], <<>>, flt[1], keep_paths, keep_root)
       IN /\ err' = r.err
          /\ tree' = <<r.node>>
    /\ op' = Call("Filter.__call__", <<"Node", keep_paths, keep_root>>)
    /\ ret' = <<>>
    /\ ModelUnchanged

(* flt.export_filter() *)
ExportFilter ==
    /\ flt # <<>>
    /\ LET r == Filter_export(flt[1])
       IN /\ err' = r.err
          /\ ret' = r.dct
    /\ op' = Call("export_filter", <<>>)
    /\ UNCHANGED <<filenames, traversal, tree, nsets, flt>>

(* flt.import_filter(dct) *)
ImportFilter(dct) ==
    /\ flt # <<>>
    /\ LET r == Filter_import(flt[1], dct)
       IN /\ err' = r.err
          /\ flt' = <<r.filter>>
    /\ op' = Call("import_filter", <<dct>>)
    /\ ret' = <<>>
    /\ UNCHANGED <<filenames, traversal, tree, nsets>>

(* flt.select(paths) with paths a list *)
SelectPaths(paths) ==
    /\ flt # <<>>
    /\ "paths" \in DOMAIN flt[1] => Len(flt[1].paths) < MaxTargets
    /\ LET r == Filter_add_paths(flt[1], paths)
       IN /\ err' = r.err
          /\ flt' = <<r.filter>>
    /\ op' = Call("select", <<paths>>)
    /\ ret' = <<>>
    /\ UNCHANGED <<filenames, traversal, tree, nsets>>

(* tree.get_children_from_path(paths) *)
GetChildren(paths) ==
    /\ tree # <<>>
    /\ ret' = <<get_children_from_path(tree[1], <<>>, paths)>>
    /\ op' = Call("get_children_from_path", <<paths>>)
    /\ err' = "ok"
    /\ UNCHANGED <<filenames, traversal, tree, nsets, flt>>

NextFilterTree ==
    \/ \E d \in TreeDocs, fn \in TreeNames : TreeInit(d, fn)
    \/ \E scope \in TreeScopeInputs, kwargs \in TreeKwargsInputs :
          FilterInit(scope[1], scope[2], kwargs)
    \/ \E keep_paths \in BOOLEAN, keep_root \in BOOLEAN : FilterTree(keep_paths, keep_root)
    \/ ExportFilter
    \/ \E dct \in DctInputs : ImportFilter(dct)
    \/ /\ op.name = "export_filter"
       /\ ret # <<>>
       /\ ImportFilter(ret[1])
    \/ \E paths \in {<<PatElems>>} : SelectPaths(paths)
    \/ \E paths \in ChildrenPaths : GetChildren(paths)

(* no Tree built and no Filter constructed yet *)
SpecFilterTree == Init /\ [][NextFilterTree]_vars

(***************************************************************************)
(* Claims about the instance tree                                          *)
(***************************************************************************)
NodeCount(node) == Cardinality(Addresses(node))

(* C1: for a Tree in which no node is flagged ignored, export_traversal    *)
(* completes without an assertion failure, and the keys reached by walking *)
(* the returned traversal are exactly the generalized paths of the nodes.  *)
C1_TraversalKeysArePaths ==
    (op.name = "export_traversal" /\ NoneIgnored(tree[1]))
        => /\ err = "ok"
           /\ flatten(tree[1].traversal) = Node_get_paths(tree[1])

(* a file-scoped tree whose repeated array elements collapsed was exported *)
C1_Witness ==
    /\ op.name = "export_traversal"
    /\ NoneIgnored(tree[1])
    /\ err = "ok"
    /\ tree[1].filename # NoName
    /\ tree[1].traversal # <<>>
    /\ Cardinality(Node_get_paths(tree[1])) < NodeCount(tree[1])

(* C10: Tree.delete raises for every rec and remove, and leaves the tree,  *)
(* its children and its path set as they were.                             *)
C10_RootDeleteRejected ==
    [][op'.name = "Tree.delete"
        => /\ err' = "AssertionError"
           /\ tree' = tree
           /\ Node_get_paths(tree'[1]) = Node_get_paths(tree[1])]_vars

(* a root with children was asked to delete itself recursively *)
C10_Witness ==
    /\ op.name = "Tree.delete"
    /\ op.arg = <<TRUE, TRUE>>
    /\ err = "AssertionError"
    /\ tree[1].children # <<>>

(***************************************************************************)
(* Claims about the Model                                                  *)
(***************************************************************************)
P_Root == <<"$">>
P_A == <<"$", ".", "a">>
P_Elem == <<"$", ".", "a", "[", "*", "]">>
P_Id == <<"$", ".", "a", "[", "*", "]", ".", "i", "d">>
P_Note == <<"$", ".", "a", "[", "*", "]", ".", "n", "o", "t", "e">>

(* Tree(document of f).get_paths() *)
FilePaths(f) == Node_get_paths(Tree(Docs[f], NoName))

Committed(o) == o.name = "process_files" /\ o.arg[1]

Preview(o) == o.name = "process_files" /\ ~o.arg[1]

(* the records of a traversal holding a path *)
RecordsOf(path, trav) == find_info_recur(path, trav, 1, <<>>)

(* the metadata of a record: every field but the nested mapping *)
Meta(info) == [f \in DOMAIN info \ {"traversal"} |-> info[f]]

RECURSIVE RecordList(_, _)
(* every record of a traversal with its key, parents before children *)
RecordList(trav, k) ==
    IF k > Len(trav) THEN <<>>
    ELSE <<[path |-> trav[k].path, meta |-> Meta(trav[k].info)]>>
         \o RecordList(trav[k].info.traversal, 1)
         \o RecordList(trav, k + 1)

(* C2: a committed merge of the listed documents leaves the Model with the *)
(* paths it had and the paths of every merged document: no path learned    *)
(* earlier is lost.                                                        *)
C2_MergeKeepsEveryPath ==
    [][Committed(op')
        => Model_get_paths(traversal') =
              Model_get_paths(traversal)
              \cup UNION {FilePaths(filenames[i]) : i \in 1..Len(filenames)}]_vars

(* C3: {"a": [{"id": 1}, {"id": 2}]} generalizes to exactly the paths $,   *)
(* $.a, $.a[*], $.a[*].id with one record for $.a[*].id; merging           *)
(* {"a": [{"id": 3, "note": "x"}]} after it adds $.a[*].note and keeps     *)
(* $.a[*].id.                                                              *)
C3_ScenarioUsersThenNote ==
    /\ (Committed(op) /\ filenames = <<1>>)
          => /\ Model_get_paths(traversal) = {P_Root, P_A, P_Elem, P_Id}
             /\ Len(RecordsOf(P_Id, traversal)) = 1
    /\ (Committed(op) /\ filenames = <<1, 2>>)
          => /\ P_Note \in Model_get_paths(traversal)
             /\ P_Id \in Model_get_paths(traversal)
             /\ Len(RecordsOf(P_Id, traversal)) = 1
             /\ Meta(InfoAt(traversal, RecordsOf(P_Id, traversal)[1])).foundType = "int"

(* the second document was merged after the first *)
C3_Witness ==
    /\ Committed(op)
    /\ filenames = <<1, 2>>
    /\ Model_get_paths(traversal) = {P_Root, P_A, P_Elem, P_Id, P_Note}

(* C4: a preview merge leaves the paths and every record of the Model as   *)
(* they were and returns one diff per document.                            *)
C4_PreviewLeavesModel ==
    [][Preview(op')
        => /\ traversal' = traversal
           /\ Model_get_paths(traversal') = Model_get_paths(traversal)
           /\ Len(ret'[1]) = Len(filenames)
           /\ \A i \in 1..Len(filenames) : ret'[1][i][1] = filenames[i]]_vars

(* a preview of a document holding paths the Model has not learned *)
C4_Witness ==
    /\ Preview(op)
    /\ \E i \in 1..Len(filenames) :
          /\ ~(FilePaths(filenames[i]) \subseteq Model_get_paths(traversal))
          /\ ret[1][i][2] # EmptyDiff

SameFile(fns) == fns # <<>> /\ \A i \in 1..Len(fns) : fns[i] = fns[1]

(* C5: merging a document again right after it was merged adds no path and *)
(* records an empty diff, within one call and across two calls.            *)
C5_MergeIdempotent ==
    [][op'.name = "process_files"
        => /\ \A i \in 2..Len(filenames) :
                 filenames[i] = filenames[i - 1] => ret'[1][i][2] = EmptyDiff
           /\ (Committed(op) /\ SameFile(filenames))
                 => /\ Model_get_paths(traversal') = Model_get_paths(traversal)
                    /\ \A i \in 1..Len(filenames) : ret'[1][i][2] = EmptyDiff]_vars

(* the same document was merged twice in one call into a Model that had    *)
(* learned another document                                                *)
C5_Witness ==
    /\ Committed(op)
    /\ Len(filenames) = 2
    /\ filenames[1] = filenames[2]
    /\ ret[1][1][2] # EmptyDiff
    /\ ret[1][2][2] = EmptyDiff
    /\ traversal # <<>>

(* C6: asking for a path the Model does not hold raises nothing: find_info *)
(* reports not-found, set_attribute returns False, the Model is unchanged. *)
C6_LookupMissIsOutcome ==
    [][(op'.name \in {"find_info", "set_attribute"}
          /\ op'.arg[1] \notin Model_get_paths(traversal))
        => /\ err' = "ok"
           /\ traversal' = traversal
           /\ (op'.name = "set_attribute" => ret' = <<FALSE>>)
           /\ (op'.name = "find_info" => ret' = <<>>)]_vars

(* the step of set_attribute on a path the Model holds: True is returned,  *)
(* the paths, the other records and the unnamed fields of the record are   *)
(* as before, the named field holds the value                              *)
SetAttributeFrame ==
    LET before == RecordList(traversal, 1)
        after == RecordList(traversal', 1)
        attr == op'.arg[2]
    IN /\ err' = "ok"
       /\ ret' = <<TRUE>>
       /\ Model_get_paths(traversal') = Model_get_paths(traversal)
       /\ Len(after) = Len(before)
       /\ LET hit == CHOOSE k \in 1..Len(before) :
                        /\ before[k].path = op'.arg[1]
                        /\ \A j \in 1..(k - 1) : before[j].path # op'.arg[1]
          IN /\ \A k \in 1..Len(before) : k # hit => after[k] = before[k]
             /\ after[hit].path = before[hit].path
             /\ DOMAIN after[hit].meta \subseteq DOMAIN before[hit].meta \cup {attr}
             /\ \A f \in DOMAIN before[hit].meta \ {attr} :
                   /\ f \in DOMAIN after[hit].meta
                   /\ after[hit].meta[f] = before[hit].meta[f]
             /\ attr # "traversal" => after[hit].meta[attr] = op'.arg[3]

SetAttributeHit == op'.name = "set_attribute" /\ op'.arg[1] \in Model_get_paths(traversal)

(* C7 as claimed: set_attribute on a present path changes the named fields *)
(* of one record and nothing else, whatever field names are passed.        *)
C7_SetAttributeAnyField == [][SetAttributeHit => SetAttributeFrame]_vars

(* C7: set_attribute on a present path, with any field name other than     *)
(* "traversal", returns True and changes the named field of one record and *)
(* nothing else.                                                           *)
C7_SetAttributeMetadataField ==
    [][(SetAttributeHit /\ op'.arg[2] # "traversal") => SetAttributeFrame]_vars

(* the description of a record nested under other records was set *)
C7_Witness ==
    /\ op.name = "set_attribute"
    /\ op.arg[1] = P_Id
    /\ op.arg[2] = "description"
    /\ ret = <<TRUE>>
    /\ InfoAt(traversal, RecordsOf(P_Id, traversal)[1]).description = UserId
    /\ InfoAt(traversal, RecordsOf(P_Id, traversal)[1]).foundType = "int"

(***************************************************************************)
(* Claims about applying a Model to a Tree                                 *)
(***************************************************************************)
(* the nodes the call is applied to: the node, with rec its descendants *)
Scope(o, root) ==
    IF o.arg[2] THEN {o.arg[1] \o a : a \in Addresses(NodeAt(root, o.arg[1]))}
    ELSE {o.arg[1]}

HasRecord(node) == Generalize(node.path) \in Model_get_paths(traversal)

(* the six fields of the node are those of a record of its path *)
CarriesRecord(node) ==
    \E k \in 1..Len(RecordsOf(Generalize(node.path), traversal)) :
        LET info == InfoAt(traversal, RecordsOf(Generalize(node.path), traversal)[k])
        IN \A i \in 1..Len(ApplyFields) :
              /\ ApplyFields[i] \in DOMAIN info
              /\ node[ApplyFields[i]] = info[ApplyFields[i]]

(* C8: applying a Model to a node whose nodes all have a record gives      *)
(* every node in scope the six fields of its record (with rec the node and *)
(* its descendants, without rec the node alone) and changes no other node. *)
C8_ApplySetsRecordFields ==
    [][(op'.name = "Model.__call__"
          /\ \A a \in Scope(op', tree[1]) : HasRecord(NodeAt(tree[1], a)))
        => /\ err' = "ok"
           /\ \A a \in Scope(op', tree[1]) : CarriesRecord(NodeAt(tree'[1], a))
           /\ \A a \in Addresses(tree[1]) \ Scope(op', tree[1]) :
                 \A i \in 1..Len(ApplyFields) :
                    NodeAt(tree'[1], a)[ApplyFields[i]] = NodeAt(tree[1], a)[ApplyFields[i]]]_vars

(* C9: applying a Model to nodes of which one has no record completes;     *)
(* that node keeps its metadata and the nodes with a record receive theirs.*)
C9_ApplySkipsUnknownPaths ==
    [][(op'.name = "Model.__call__"
          /\ \E a \in Scope(op', tree[1]) : ~HasRecord(NodeAt(tree[1], a)))
        => /\ err' = "ok"
           /\ \A a \in Scope(op', tree[1]) :
                 IF HasRecord(NodeAt(tree[1], a))
                 THEN CarriesRecord(NodeAt(tree'[1], a))
                 ELSE \A i \in 1..Len(ApplyFields) :
                        NodeAt(tree'[1], a)[ApplyFields[i]] = NodeAt(tree[1], a)[ApplyFields[i]]]_vars

(***************************************************************************)
(* Claims about deletion, protected attributes and the root                *)
(***************************************************************************)
(* the list without its i-th element *)
WithoutAt(s, i) == SubSeq(s, 1, i - 1) \o SubSeq(s, i + 1, Len(s))

Last(s) == s[Len(s)]

NodeDeleteOf(o, remove) == o.name = "Node.delete" /\ o.arg[3] = remove

(* C11: a hard delete of a node below the root completes and leaves the    *)
(* parent with its former children minus that node, the siblings in their  *)
(* former order, whether or not the delete is recursive.                   *)
C11_HardDeleteRemovesNode ==
    [][NodeDeleteOf(op', TRUE)
        => /\ err' = "ok"
           /\ NodeAt(tree'[1], ParentOf(op'.arg[1])).children
                = WithoutAt(NodeAt(tree[1], ParentOf(op'.arg[1])).children,
                            Last(op'.arg[1]))]_vars

(* the metadata fields of a node *)
MetadataFields == {"descriptiveType", "unique", "default", "description", "choices", "regex"}

(* C12: a soft delete of a node below the root completes and puts, at the  *)
(* node's position among its parent's children, a placeholder with null    *)
(* metadata; the parent keeps its number of children, the siblings are     *)
(* untouched and the tree keeps its number of nodes; a non-recursive soft  *)
(* delete hands the node's children to the placeholder as they were.       *)
C12_SoftDeleteKeepsShape ==
    [][NodeDeleteOf(op', FALSE)
        => LET addr == op'.arg[1]
               old == NodeAt(tree[1], ParentOf(addr)).children
               new == NodeAt(tree'[1], ParentOf(addr)).children
           IN /\ err' = "ok"
              /\ Len(new) = Len(old)
              /\ \A i \in 1..Len(old) : i # Last(addr) => new[i] = old[i]
              /\ \A f \in MetadataFields : new[Last(addr)][f] = "None"
              /\ new[Last(addr)].fieldName # old[Last(addr)].fieldName
              /\ ~op'.arg[2] => new[Last(addr)].children = old[Last(addr)].children
              /\ NodeCount(tree'[1]) = NodeCount(tree[1])]_vars

(* the attributes named by the claim *)
StructuralAttrs ==
    {"fieldName", "filename", "data", "foundType", "parent", "children", "path"}

(* C13: assigning or deleting fieldName, filename, data, foundType,        *)
(* parent, children or path on any node of a constructed Tree raises       *)
(* AttributeError and leaves the tree as it was.                           *)
C13_ProtectedAttrsImmutable ==
    [][(op'.name \in {"__setattr__", "__delattr__"} /\ op'.arg[2] \in StructuralAttrs)
        => /\ err' = "AttributeError"
           /\ tree' = tree]_vars

(* an assignment to path was refused on a tree that has children *)
C13_Witness ==
    /\ op.name = "__setattr__"
    /\ op.arg[2] = "path"
    /\ err = "AttributeError"
    /\ tree[1].children # <<>>

(* C14: the root of a Tree built without a file identifier has fieldName   *)
(* "$", foundType Root and path "$", its unique, default, choices and      *)
(* regex hold NA, and every node below the root has all six metadata       *)
(* fields None.                                                            *)
C14_RootFields ==
    (op.name = "Tree" /\ op.arg[2] = NoName)
        => /\ tree[1].fieldName = <<"$">>
           /\ tree[1].foundType = "Root"
           /\ tree[1].path = <<"$">>
           /\ \A f \in {"unique", "default", "choices", "regex"} : tree[1][f] = "NA"
           /\ \A a \in Addresses(tree[1]) \ {<<>>} :
                 \A f \in MetadataFields : NodeAt(tree[1], a)[f] = "None"

(* a Tree with nested children was built without a file identifier *)
C14_Witness ==
    /\ op.name = "Tree"
    /\ op.arg[2] = NoName
    /\ \E a \in Addresses(tree[1]) : Len(a) = 2

(***************************************************************************)
(* Claims about path patterns and path generalization                      *)
(***************************************************************************)
(* C15: for a pattern whose only wildcards are [*], the compiled pattern   *)
(* matches a concrete path exactly when replacing every [n] of the path by *)
(* [*] gives the pattern.                                                  *)
C15_StarIsOneIndexSegment ==
    op.name = "REGEX_SEARCH"
        => (ret[1] <=> Generalize(op.arg[2]) = op.arg[1])

RECURSIVE Skeleton(_)
(* s without its [n] and [*] segments *)
Skeleton(s) ==
    IF s = <<>> THEN <<>>
    ELSE IF RegexPathMatch(s) > 0 THEN Skeleton(Drop(s, RegexPathMatch(s)))
    ELSE IF Len(s) >= 3 /\ SubSeq(s, 1, 3) = <<"[", "*", "]">> THEN Skeleton(Drop(s, 3))
    ELSE <<Head(s)>> \o Skeleton(Tail(s))

RECURSIVE CountStars(_)
(* the number of [*] segments of s *)
CountStars(s) ==
    IF Len(s) < 3 THEN 0
    ELSE IF SubSeq(s, 1, 3) = <<"[", "*", "]">> THEN 1 + CountStars(Drop(s, 3))
    ELSE CountStars(Tail(s))

RECURSIVE CountIndices(_)
(* the number of segments of s that are a bracketed run of digits *)
CountIndices(s) ==
    IF s = <<>> THEN 0
    ELSE IF Head(s) = "[" /\ DigitRun(Tail(s)) > 0
            /\ Len(s) >= DigitRun(Tail(s)) + 2 /\ s[DigitRun(Tail(s)) + 2] = "]"
         THEN 1 + CountIndices(Drop(s, DigitRun(Tail(s)) + 2))
         ELSE CountIndices(Tail(s))

(* C16: the substitution returns a string for every input; the result      *)
(* holds no bracketed integer segment, has one [*] more for each such      *)
(* segment of the input, agrees with the input on everything else, and is  *)
(* a fixed point of the substitution; "$.a[7].b[2]" gives "$.a[*].b[*]".   *)
C16_GeneralizeIdempotent ==
    op.name = "REGEX_PATH.sub"
        => /\ err = "ok"
           /\ Len(ret) = 1
           /\ CountIndices(ret[1]) = 0
           /\ CountStars(ret[1]) = CountStars(op.arg[1]) + CountIndices(op.arg[1])
           /\ Skeleton(ret[1]) = Skeleton(op.arg[1])
           /\ Generalize(ret[1]) = ret[1]
           /\ op.arg[1] = PathTwoIndices => ret[1] = PatAStarB \o <<"[", "*", "]">>

(* a path with a two-digit index and a second index was generalized *)
C16_Witness ==
    /\ op.name = "REGEX_PATH.sub"
    /\ op.arg[1] = <<"$", "[", "1", "2", "]", ".", "a", "[", "0", "]">>
    /\ ret[1] = <<"$", "[", "*", "]", ".", "a", "[", "*", "]">>

(***************************************************************************)
(* Claims about the predicate language and the Filter                      *)
(***************************************************************************)
(* the operators the claims name *)
SupportedOps ==
    {O_exact, O_not, O_gt, O_gte, O_lt, O_lte, O_contains, O_startswith, O_endswith,
     O_isnull, O_regex}

BaseAttributes == {A_path, A_data, A_foundType, A_descriptiveType, A_unique}

(* attribute__operator with an operator that is not supported *)
UnknownOperator(key) ==
    LET parts == SplitDunder(key, <<>>)
    IN Len(parts) = 2 /\ parts[2] \notin SupportedOps

(* attribute__operator with a supported operator and an attribute outside  *)
(* the base list                                                           *)
UnknownAttribute(key) ==
    LET parts == SplitDunder(key, <<>>)
    IN Len(parts) = 2 /\ parts[2] \in SupportedOps /\ parts[1] \notin BaseAttributes

(* the k-th keyword argument is the first one that parse_op does not return from *)
FirstRaising(kwargs, k) ==
    /\ k \in 1..Len(kwargs)
    /\ parse_op(kwargs[k][1]).err # "ok"
    /\ \A j \in 1..(k - 1) : parse_op(kwargs[j][1]).err = "ok"

PredicatesOf(kwargs) ==
    [k \in 1..Len(kwargs) |->
        LET parts == SplitDunder(kwargs[k][1], <<>>)
        IN <<parts[1], parts[2], kwargs[k][2]>>]

(* C18: for a key whose attribute is outside the base list and whose       *)
(* operator is supported, parse_op prints the warning, raises nothing and  *)
(* returns the attribute and the operator; Filter(...) given such keys     *)
(* (and base ones) is constructed with the predicates they stand for.      *)
C18_UnknownAttributeAccepted ==
    [][/\ (op'.name = "parse_op" /\ UnknownAttribute(op'.arg[1]))
            => /\ err' = "ok"
               /\ ret'[1].warned
               /\ <<ret'[1].attribute, ret'[1].op>> = SplitDunder(op'.arg[1], <<>>)
       /\ (/\ op'.name = "Filter"
           /\ \E k \in 1..Len(op'.arg[1]) : UnknownAttribute(op'.arg[1][k][1])
           /\ \A k \in 1..Len(op'.arg[1]) :
                 LET parts == SplitDunder(op'.arg[1][k][1], <<>>)
                 IN Len(parts) = 2 /\ parts[2] \in SupportedOps)
            => /\ err' = "ok"
               /\ flt'[1].filters = PredicatesOf(op'.arg[1])]_vars

(* C19: isnull holds for a value exactly when the value is None or the     *)
(* empty str.                                                              *)
C19_IsnullOnlyNullOrEmpty ==
    (op.name = "LIST_OP" /\ op.arg[1] = O_isnull)
        => (ret[1] <=> op.arg[2] \in {"None", ""})

RECURSIVE RecordAddrs(_, _)
(* the records of a traversal, each named by the positions leading to it *)
RecordAddrs(trav, at) ==
    UNION {{at \o <<k>>}
           \cup (IF "traversal" \in DOMAIN trav[k].info
                 THEN RecordAddrs(trav[k].info.traversal, at \o <<k>>) ELSE {})
           : k \in 1..Len(trav)}

RECURSIVE PathAt(_, _)
PathAt(trav, addr) ==
    IF Len(addr) = 1 THEN trav[addr[1]].path
    ELSE PathAt(trav[addr[1]].info.traversal, Tail(addr))

(* the field of a record that an attribute name reads *)
FieldOf(attribute) ==
    CASE attribute = A_unique -> "unique"
      [] attribute = A_description -> "description"
      [] attribute = A_foundType -> "foundType"
      [] attribute = A_descriptiveType -> "descriptiveType"
      [] attribute = A_data -> "data"

(* a record fails a predicate of the Filter *)
FailsPredicate(f, path, info) ==
    \E i \in 1..Len(f.filters) :
        LET attribute == f.filters[i][1]
            o == f.filters[i][2]
            value == f.filters[i][3]
        IN IF attribute = A_path
           THEN (o = O_exact /\ path # value) \/ (o = O_not /\ path = value)
           ELSE /\ FieldOf(attribute) \in DOMAIN info
                /\ ~ApplyOp(o, info[FieldOf(attribute)], value)

(* the record is one that the application reaches *)
InFilterScope(f, path, keep_root) ==
    /\ f.filenames = <<>>
    /\ f.targets = <<>> \/ path \in Range(f.targets)
    /\ ~(path = <<"$">> /\ keep_root)

(* C20: a soft application of a Filter to a Model completes, every record  *)
(* in scope that fails a predicate is left with its nested mapping only,   *)
(* and get_paths() is the same set before and after.                       *)
C20_SoftFilterKeepsPaths ==
    [][(op'.name = "Filter.__call__" /\ op'.arg[1] = "Model" /\ op'.arg[2])
        => /\ err' = "ok"
           /\ Model_get_paths(traversal') = Model_get_paths(traversal)
           /\ \A a \in RecordAddrs(traversal, <<>>) :
                 (/\ InFilterScope(flt[1], PathAt(traversal, a), op'.arg[3])
                  /\ FailsPredicate(flt[1], PathAt(traversal, a), InfoAt(traversal, a)))
                    => DOMAIN InfoAt(traversal', a) = {"traversal"}]_vars

(***************************************************************************)
(* Claims about a Filter applied to a Model, continued                     *)
(***************************************************************************)
(* the addresses of the records nested at or below the record at a *)
SubtreeAddrs(trav, a) ==
    {b \in RecordAddrs(trav, <<>>) : Len(b) >= Len(a) /\ SubSeq(b, 1, Len(a)) = a}

(* an application of the Filter to the Model *)
FilterOnModel(o) == o.name = "Filter.__call__" /\ o.arg[1] = "Model"

(* C21: a hard application of a Filter to a Model completes, and for every *)
(* record in scope that fails a predicate neither its path nor the path of *)
(* a record nested below it is in get_paths() afterwards.                  *)
C21_HardFilterRemovesSubtree ==
    [][(FilterOnModel(op') /\ ~op'.arg[2])
        => /\ err' = "ok"
           /\ \A a \in RecordAddrs(traversal, <<>>) :
                 (/\ InFilterScope(flt[1], PathAt(traversal, a), op'.arg[3])
                  /\ FailsPredicate(flt[1], PathAt(traversal, a), InfoAt(traversal, a)))
                    => \A b \in SubtreeAddrs(traversal, a) :
                          PathAt(traversal, b) \notin Model_get_paths(traversal')]_vars

(* the metadata of a record and the keys of its nested mapping *)
MetadataOf(info) == [n \in DOMAIN info \ {"traversal"} |-> info[n]]

ChildKeys(info) == IF "traversal" \in DOMAIN info THEN Keys(info.traversal) ELSE {}

C30_FilterOnModelNeverRaises ==
    [][FilterOnModel(op') => err' = "ok"]_vars

(***************************************************************************)
(* Claims about ignored nodes                                              *)
(***************************************************************************)
RECURSIVE RepresentedAt(_, _, _)
(* the node at addr below node has its record in trav, nested under the    *)
(* records of the nodes leading to it; an ignored node has a record with   *)
(* the nested mapping only, keyed by the hash of its generalized path, and *)
(* its children have their records in that mapping                         *)
RepresentedAt(trav, node, addr) ==
    LET key == IF node.ignore THEN Uuid5(Generalize(node.path)) ELSE Generalize(node.path)
    IN /\ key \in Keys(trav)
       /\ LET info == trav[IndexOf(trav, key)].info
          IN IF addr = <<>>
             THEN /\ node.ignore => DOMAIN info = {"traversal"}
                  /\ \A i \in 1..Len(node.children) :
                        RepresentedAt(info.traversal, node.children[i], <<>>)
             ELSE RepresentedAt(info.traversal, node.children[Head(addr)], Tail(addr))

(* C24: export_traversal on a Tree with an ignored node completes, and the *)
(* traversal holds for every ignored node a placeholder record keyed by    *)
(* the hash of its generalized path with the node's children nested in it. *)
C24_IgnoredNodeIsPlaceholder ==
    [][(op'.name = "export_traversal" /\ ~NoneIgnored(tree[1]))
        => /\ err' = "ok"
           /\ \A a \in Addresses(tree[1]) :
                 NodeAt(tree[1], a).ignore
                    => RepresentedAt(tree'[1].traversal, tree[1], a)]_vars

(* C29: ignore_node with rec=True marks the node and every node below it,  *)
(* all of them without paths and those matching one of the paths with      *)
(* paths; with rec=False no node other than the given one is marked.       *)
C29_IgnoreNodeRecursion ==
    [][op'.name = "ignore_node"
        => LET addr == op'.arg[1]
               rec == op'.arg[2]
               paths == op'.arg[3]
               before == NodeAt(tree[1], addr)
               after == NodeAt(tree'[1], addr)
           IN \A a \in Addresses(before) :
                 NodeAt(after, a).ignore
                    <=> \/ NodeAt(before, a).ignore
                        \/ /\ rec \/ a = <<>>
                           /\ \/ paths = <<>>
                              \/ \E i \in 1..Len(paths) :
                                    REGEX_SEARCH(paths[i], NodeAt(before, a).path)]_vars

(***************************************************************************)
(* Claims about the changes returned by a merge                            *)
(***************************************************************************)
RECURSIVE StateAfterMerges(_, _, _)
(* the state after the first n documents of fns were merged into trav *)
StateAfterMerges(trav, fns, n) ==
    IF n = 0 THEN trav
    ELSE DictUpdate(StateAfterMerges(trav, fns, n - 1), FileTraversal(fns[n]))

(* the components of a change entry past the file name and the diff *)
ExtraComponents(entry) == 3..Len(entry)

C23_FilterRoundTrip ==
    [][/\ op'.name = "export_filter"
            => /\ err' = "ok"
               /\ ret'[1].paths = flt[1].targets
               /\ ret'[1].filters = flt[1].filters
       /\ (op'.name = "import_filter" /\ "paths" \in DOMAIN op'.arg[1])
            => /\ err' = "ok"
               /\ flt'[1].targets = op'.arg[1].paths
               /\ flt'[1].filters = op'.arg[1].filters]_vars

(* an application of the Filter to the Tree *)
FilterOnTree(o) == o.name = "Filter.__call__" /\ o.arg[1] = "Node"

(* the node at address a is one the Filter is to be evaluated on: not the  *)
(* kept root, and matching one of the targets                              *)
InTargetUnion(f, root, a, keep_root) ==
    /\ ~(a = <<>> /\ keep_root)
    /\ \E t \in 1..Len(f.targets) : REGEX_SEARCH(f.targets[t], NodeAt(root, a).path)

(* the application went as far as deleting a node *)
DeletionAttempted == err' # "ok" \/ tree' # tree

(* C26: a Filter with targets applied to a Tree deletes a node exactly     *)
(* when some node matching at least one of the targets fails a predicate.  *)
C26_TargetsAreAUnion ==
    [][(FilterOnTree(op') /\ flt[1].targets # <<>>)
        => (DeletionAttempted
              <=> \E a \in Addresses(tree[1]) :
                     /\ InTargetUnion(flt[1], tree[1], a, op'.arg[3])
                     /\ \E i \in 1..Len(flt[1].filters) :
                           PredicateFails(NodeAt(tree[1], a), flt[1].filters[i]))]_vars

(* C27: with keep_root set, an application of a Filter to a Tree does not  *)
(* end in the error of deleting the root.                                  *)
C27_KeepRootNeverDeletesRoot ==
    [][(FilterOnTree(op') /\ op'.arg[3]) => err' # "AssertionError"]_vars

(* the nodes whose path matches one of the paths; a path without a file    *)
(* identifier is compared with the path of the node without it             *)
MatchingNodes(root, paths) ==
    {a \in Addresses(root) :
        \E i \in 1..Len(paths) :
           \/ REGEX_SEARCH(paths[i], NodeAt(root, a).path)
           \/ ":" \notin Range(paths[i]) /\ REGEX_SEARCH(paths[i], NodeAt(root, a).upath)}

(* C28: get_children_from_path returns the nodes of the tree whose path    *)
(* matches one of the paths, each of them once.                            *)
C28_ChildrenFromPathExactlyOnce ==
    [][op'.name = "get_children_from_path"
        => /\ Range(ret'[1]) = MatchingNodes(tree[1], op'.arg[1])
           /\ Len(ret'[1]) = Cardinality(MatchingNodes(tree[1], op'.arg[1]))]_vars

====
